---------------------------- MODULE Spec2Model ----------------------------
(***************************************************************************)
(* Model of rewrite.py: the migration script that walks packages/, finds   *)
(* every docker-compose.yml and rewrites label lines.                      *)
(*                                                                         *)
(* Text.  A Python str is modelled as a sequence of lexemes, each lexeme   *)
(* standing for the characters it spells (traefik, a dot, ...).  The       *)
(* characters the code looks at one by one are lexemes of their own: the   *)
(* equals sign (split), the double quote (replace), the hash (startswith), *)
(* the blank and the newline (strip, lstrip, readlines).                   *)
(* No lexeme that starts one of the searched substrings is a               *)
(* proper suffix of another lexeme, and none that ends one is a proper     *)
(* prefix of another, so (sub in line) on characters and on lexemes agree  *)
(* for every line built from this alphabet.                                *)
(***************************************************************************)
EXTENDS Integers, Sequences, FiniteSets, TLC

\* Bounds of the model.
MaxFiles == 2
MaxLines == 3
MaxIndent == 1
MaxRuns == 2

-----------------------------------------------------------------------------
(* Python str methods, on lexeme sequences.                                *)

\* c.isspace()
IsSpace(c) == c \in {" ", "\n"}

\* s[i:] with a 0-based i, that is the lexemes i+1 .. Len(s)
From(s, i) == SubSeq(s, i + 1, Len(s))

\* s.startswith(p)
StartsWith(s, p) == Len(p) <= Len(s) /\ SubSeq(s, 1, Len(p)) = p

\* The positions (1-based) at which p occurs in s.
Occurrences(s, p) == {i \in 1..(Len(s) - Len(p) + 1) : SubSeq(s, i, i + Len(p) - 1) = p}

\* p in s
Contains(s, p) == Occurrences(s, p) # {}

\* s.find(p) + 1 for a p that occurs in s
Find(s, p) == CHOOSE i \in Occurrences(s, p) : \A j \in Occurrences(s, p) : i <= j

RECURSIVE LStrip(_)
\* s.lstrip()
LStrip(s) == IF s # <<>> /\ IsSpace(Head(s)) THEN LStrip(Tail(s)) ELSE s

RECURSIVE RStrip(_)
\* s.rstrip()
RStrip(s) == IF s # <<>> /\ IsSpace(s[Len(s)]) THEN RStrip(SubSeq(s, 1, Len(s) - 1)) ELSE s

\* s.strip()
Strip(s) == RStrip(LStrip(s))

RECURSIVE Replace(_, _, _)
\* s.replace(old, new): every non-overlapping occurrence, left to right
Replace(s, old, new) ==
    IF ~Contains(s, old) THEN s
    ELSE LET i == Find(s, old)
         IN  SubSeq(s, 1, i - 1) \o new \o Replace(From(s, i - 1 + Len(old)), old, new)

RECURSIVE Split(_, _)
\* s.split(sep): the list of fields
Split(s, sep) ==
    IF ~Contains(s, sep) THEN <<s>>
    ELSE LET i == Find(s, sep)
         IN  <<SubSeq(s, 1, i - 1)>> \o Split(From(s, i - 1 + Len(sep)), sep)

RECURSIVE SplitLines(_)
\* f.readlines(): the content cut after every newline, which each line keeps
SplitLines(content) ==
    IF content = <<>> THEN <<>>
    ELSE IF ~Contains(content, <<"\n">>) THEN <<content>>
    ELSE LET i == Find(content, <<"\n">>)
         IN  <<SubSeq(content, 1, i)>> \o SplitLines(From(content, i))

RECURSIVE JoinLines(_)
\* what f.writelines(ls) leaves in the file: the lines one after the other
JoinLines(ls) == IF ls = <<>> THEN <<>> ELSE Head(ls) \o JoinLines(Tail(ls))

-----------------------------------------------------------------------------
(* The literals of process_file.                                           *)

\* .rule=Host( and a backquote, which the lexeme BQ stands for
RuleHost == <<".", "rule", "=", "Host(", "BQ">>
TraefikEnable == <<"traefik", ".", "enable", "=", "true">>
LostackEnable == <<"lostack", ".", "enable", "=", "true">>
SablierEnable == <<"sablier", ".", "enable", "=", "true">>
LostackEnableSablierTrue == <<"lostack", ".", "enable", "_", "sablier", "=", "true">>
SablierGroup == <<"sablier", ".", "group">>
LostackGroup == <<"lostack", ".", "group">>
ServerPort == <<"server", ".", "port">>
LostackDuration == <<"lostack", ".", "duration">>
LostackDefaultDuration == <<"lostack", ".", "default", "_", "duration">>
LostackEnableSablier == <<"lostack", ".", "enable", "_", "sablier">>
LostackAutostart == <<"lostack", ".", "autostart">>
LostackPort == <<"lostack", ".", "port">>
\* the literal part of the f-string of both port branches
PortLabel == <<"-", " ", "lostack", ".", "port", "=">>

\* indent = line[:len(line) - len(stripped)] with stripped = line.lstrip()
Indent(line) == SubSeq(line, 1, Len(line) - Len(LStrip(line)))

-----------------------------------------------------------------------------
(* The if/elif chain of process_file, for one line.                        *)

\* The condition of branch k (1..8) as written, without the else of the elif.
Cond(k, line) ==
    CASE k = 1 -> Contains(line, RuleHost) /\ ~StartsWith(Strip(line), <<"#">>)
      [] k = 2 -> Contains(line, TraefikEnable)
      [] k = 3 -> Contains(line, SablierEnable)
      [] k = 4 -> Contains(line, SablierGroup)
      [] k = 5 -> Contains(line, ServerPort)
      [] k = 6 -> Contains(line, LostackDuration)
      [] k = 7 -> Contains(line, LostackEnableSablier)
      [] k = 8 -> Contains(line, LostackPort)

\* Mutant of Branch: the traefik.enable test moved in front of the Host rule test.
BranchEnableFirst(line) ==
    IF Cond(2, line) THEN 2
    ELSE IF Cond(1, line) THEN 1
    ELSE IF Cond(3, line) THEN 3
    ELSE IF Cond(4, line) THEN 4
    ELSE IF Cond(5, line) THEN 5
    ELSE IF Cond(6, line) THEN 6
    ELSE IF Cond(7, line) THEN 7
    ELSE IF Cond(8, line) THEN 8
    ELSE 9

\* The branch the chain takes: the first whose condition holds, 9 for the else.
Branch(line) ==
    IF Cond(1, line) THEN 1
    ELSE IF Cond(2, line) THEN 2
    ELSE IF Cond(3, line) THEN 3
    ELSE IF Cond(4, line) THEN 4
    ELSE IF Cond(5, line) THEN 5
    ELSE IF Cond(6, line) THEN 6
    ELSE IF Cond(7, line) THEN 7
    ELSE IF Cond(8, line) THEN 8
    ELSE 9

\* What the body of a branch yields: the line appended to new_lines and the amount
\* added to modified_lines, or the exception it raises.
Appended(l, n) == [raised |-> FALSE, line |-> l, count |-> n]
Raised == [raised |-> TRUE, line |-> <<>>, count |-> 0]

\* indent, then a hash and a blank, then stripped
CommentOut(line) == Appended(Indent(line) \o <<"#", " ">> \o LStrip(line), 1)

\* Mutant of ServerPortLine: split("=", 1), the value is all that follows the
\* first equals sign.
ServerPortLineRest(line) ==
    IF ~Contains(line, <<"=">>) THEN Raised
    ELSE Appended(Indent(line) \o PortLabel
                    \o Strip(From(line, Find(line, <<"=">>))) \o <<"\n">>, 1)

\* port = line.split("=")[1].strip(); f"{indent}- lostack.port={port}" and a
\* newline; IndexError when the line holds no equals sign
ServerPortLine(line) ==
    LET fields == Split(line, <<"=">>)
    IN  IF Len(fields) < 2 THEN Raised
        ELSE Appended(Indent(line) \o PortLabel \o Strip(fields[2]) \o <<"\n">>, 1)

\* the same with the double quotes removed from the stripped value
LostackPortLine(line) ==
    LET fields == Split(line, <<"=">>)
    IN  IF Len(fields) < 2 THEN Raised
        ELSE Appended(Indent(line) \o PortLabel
                        \o Replace(Strip(fields[2]), <<"\"">>, <<>>) \o <<"\n">>, 1)

\* The body of branch k.
Body(k, line) ==
    CASE k = 1 -> CommentOut(line)
      [] k = 2 -> Appended(Replace(line, TraefikEnable, LostackEnable), 1)
      [] k = 3 -> Appended(Replace(line, SablierEnable, LostackEnableSablierTrue), 1)
      [] k = 4 -> Appended(Replace(line, SablierGroup, LostackGroup), 1)
      [] k = 5 -> ServerPortLine(line)
      [] k = 6 -> Appended(Replace(line, LostackDuration, LostackDefaultDuration), 1)
      [] k = 7 -> Appended(Replace(line, LostackEnableSablier, LostackAutostart), 1)
      [] k = 8 -> LostackPortLine(line)
      [] k = 9 -> Appended(line, 0)

\* One iteration of the loop over lines.
RewriteLine(line) == Body(Branch(line), line)

-----------------------------------------------------------------------------
(* The state: the file system, main, and the frame of process_file.        *)

VARIABLES
    packages,               \* what the path packages is: missing, file or dir
    disk,                   \* path -> content of each docker-compose.yml
    access,                 \* path -> os.access(path, R_OK | W_OK)
    mtime,                  \* path -> number of times the file was opened for writing
    start,                  \* disk and mtime as they were when the run started
    run,                    \* which run of the script this is
    pc,                     \* where the script is
    exit_status,            \* the exit status of the process
    docker_files,           \* main: the list find_docker_compose_files returned
    idx,                    \* main: position of the for loop in docker_files
    files_found,            \* main
    files_modified,         \* main
    total_lines_commented,  \* main
    ret,                    \* main: modified_lines, the value process_file returned
    results,                \* what became of each file the loop has passed
    file_path,              \* process_file: its argument
    lines,                  \* process_file
    k,                      \* process_file: position of the for loop in lines
    new_lines,              \* process_file
    modified_lines,         \* process_file
    exc                     \* process_file: the exception caught, if any

vars == <<packages, disk, access, mtime, start, run, pc, exit_status, docker_files,
          idx, files_found, files_modified, total_lines_commented, ret, results,
          file_path, lines, k, new_lines, modified_lines, exc>>

fsVars == <<packages, disk, access, mtime, start, run>>
mainVars == <<docker_files, idx, files_found, files_modified, total_lines_commented,
              ret, results>>
frameVars == <<file_path, lines, k, new_lines, modified_lines, exc>>

\* The paths 1 .. n of a sequence of n contents.
Paths == DOMAIN disk

\* The frame of process_file before a call and after its return.
NoFrame ==
    /\ file_path = 0
    /\ lines = <<>>
    /\ k = 0
    /\ new_lines = <<>>
    /\ modified_lines = 0
    /\ exc = "none"

\* The state of a process that has just started, over a given file system.
Started ==
    /\ start = [disk |-> disk, mtime |-> mtime]
    /\ pc = "main"
    /\ exit_status = 0
    /\ docker_files = <<>>
    /\ idx = 0
    /\ files_found = 0
    /\ files_modified = 0
    /\ total_lines_commented = 0
    /\ ret = 0
    /\ results = <<>>
    /\ NoFrame

-----------------------------------------------------------------------------
(* find_docker_compose_files                                               *)

\* packages_dir.exists() is false: sys.exit(1)
FindMissing ==
    /\ pc = "main"
    /\ packages = "missing"
    /\ pc' = "exit"
    /\ exit_status' = 1
    /\ UNCHANGED <<fsVars, mainVars, frameVars>>

\* Mutant of FindNotDir: the is_dir test left out, the glob runs.
FindNotDirIgnored ==
    /\ pc = "main"
    /\ packages = "file"
    /\ docker_files' = <<>>
    /\ pc' = "found"
    /\ UNCHANGED <<fsVars, exit_status, idx, files_found, files_modified,
                   total_lines_commented, ret, results, frameVars>>

\* packages_dir.is_dir() is false: sys.exit(1)
FindNotDir ==
    /\ pc = "main"
    /\ packages = "file"
    /\ pc' = "exit"
    /\ exit_status' = 1
    /\ UNCHANGED <<fsVars, mainVars, frameVars>>

\* The glob: every docker-compose.yml under packages.  The order of the list is
\* the order of the paths; Init ranges over every assignment of contents and
\* permissions to the paths, so every order of the same files is covered.
FindFiles ==
    /\ pc = "main"
    /\ packages = "dir"
    /\ docker_files' = [i \in 1..Cardinality(Paths) |-> i]
    /\ pc' = "found"
    /\ UNCHANGED <<fsVars, exit_status, idx, files_found, files_modified,
                   total_lines_commented, ret, results, frameVars>>

-----------------------------------------------------------------------------
(* main                                                                    *)

\* if not docker_files: warning, return
NoFiles ==
    /\ pc = "found"
    /\ docker_files = <<>>
    /\ pc' = "done"
    /\ UNCHANGED <<fsVars, exit_status, mainVars, frameVars>>

\* the counters for the summary, and the loop begins
InitCounters ==
    /\ pc = "found"
    /\ docker_files # <<>>
    /\ files_found' = Len(docker_files)
    /\ files_modified' = 0
    /\ total_lines_commented' = 0
    /\ idx' = 1
    /\ pc' = "loop"
    /\ UNCHANGED <<fsVars, exit_status, docker_files, ret, results, frameVars>>

\* os.access fails: error notice, continue
AccessDenied ==
    /\ pc = "loop"
    /\ idx <= Len(docker_files)
    /\ ~access[docker_files[idx]]
    /\ results' = Append(results, [path |-> docker_files[idx], called |-> FALSE, ret |-> 0])
    /\ idx' = idx + 1
    /\ UNCHANGED <<fsVars, pc, exit_status, docker_files, files_found, files_modified,
                   total_lines_commented, ret, frameVars>>

\* modified_lines = process_file(file_path): the call
CallProcessFile ==
    /\ pc = "loop"
    /\ idx <= Len(docker_files)
    /\ access[docker_files[idx]]
    /\ file_path' = docker_files[idx]
    /\ pc' = "pf_read"
    /\ UNCHANGED <<fsVars, exit_status, mainVars, lines, k, new_lines, modified_lines, exc>>

\* Mutant of HandleResult: -1 ends the run with an error status instead of
\* going on to the next file.
HandleResultAborting ==
    /\ pc = "pf_ret"
    /\ IF ret = -1
       THEN /\ pc' = "exit"
            /\ exit_status' = 1
            /\ UNCHANGED <<files_modified, total_lines_commented>>
       ELSE /\ pc' = "loop"
            /\ files_modified' = files_modified + (IF ret > 0 THEN 1 ELSE 0)
            /\ total_lines_commented' = total_lines_commented + ret
            /\ UNCHANGED exit_status
    /\ results' = Append(results, [path |-> file_path, called |-> TRUE, ret |-> ret])
    /\ idx' = idx + 1
    /\ file_path' = 0
    /\ lines' = <<>>
    /\ k' = 0
    /\ new_lines' = <<>>
    /\ modified_lines' = 0
    /\ exc' = "none"
    /\ UNCHANGED <<fsVars, docker_files, files_found, ret>>

\* Mutant of HandleResult: every file that did not fail counts as modified.
HandleResultCounting ==
    /\ pc = "pf_ret"
    /\ IF ret = -1
       THEN UNCHANGED <<files_modified, total_lines_commented>>
       ELSE /\ files_modified' = files_modified + 1
            /\ total_lines_commented' = total_lines_commented + ret
    /\ results' = Append(results, [path |-> file_path, called |-> TRUE, ret |-> ret])
    /\ idx' = idx + 1
    /\ pc' = "loop"
    /\ file_path' = 0
    /\ lines' = <<>>
    /\ k' = 0
    /\ new_lines' = <<>>
    /\ modified_lines' = 0
    /\ exc' = "none"
    /\ UNCHANGED <<fsVars, exit_status, docker_files, files_found, ret>>

\* the value returned is looked at: -1 continue, > 0 counted
HandleResult ==
    /\ pc = "pf_ret"
    /\ IF ret = -1
       THEN UNCHANGED <<files_modified, total_lines_commented>>
       ELSE IF ret > 0
       THEN /\ files_modified' = files_modified + 1
            /\ total_lines_commented' = total_lines_commented + ret
       ELSE UNCHANGED <<files_modified, total_lines_commented>>
    /\ results' = Append(results, [path |-> file_path, called |-> TRUE, ret |-> ret])
    /\ idx' = idx + 1
    /\ pc' = "loop"
    /\ file_path' = 0
    /\ lines' = <<>>
    /\ k' = 0
    /\ new_lines' = <<>>
    /\ modified_lines' = 0
    /\ exc' = "none"
    /\ UNCHANGED <<fsVars, exit_status, docker_files, files_found, ret>>

\* the loop is over: the summary is printed and main returns
Summary ==
    /\ pc = "loop"
    /\ idx > Len(docker_files)
    /\ pc' = "done"
    /\ UNCHANGED <<fsVars, exit_status, mainVars, frameVars>>

-----------------------------------------------------------------------------
(* process_file                                                            *)

\* open(file_path, r) and f.readlines()
ReadLines ==
    /\ pc = "pf_read"
    /\ lines' = SplitLines(disk[file_path])
    /\ modified_lines' = 0
    /\ new_lines' = <<>>
    /\ k' = 1
    /\ pc' = "pf_for"
    /\ UNCHANGED <<fsVars, exit_status, mainVars, file_path, exc>>

\* the open or the read raises (the file went away, it is not UTF-8):
\* caught, -1 returned
ReadError ==
    /\ pc = "pf_read"
    /\ exc' = "read"
    /\ ret' = -1
    /\ pc' = "pf_ret"
    /\ UNCHANGED <<fsVars, exit_status, docker_files, idx, files_found, files_modified,
                   total_lines_commented, results, file_path, lines, k, new_lines,
                   modified_lines>>

\* Mutant of ProcessLine: the else branch does not append the unchanged line.
ProcessLineDropping ==
    /\ pc = "pf_for"
    /\ k <= Len(lines)
    /\ LET r == RewriteLine(lines[k])
       IN  IF r.raised
           THEN /\ exc' = "IndexError"
                /\ ret' = -1
                /\ pc' = "pf_ret"
                /\ UNCHANGED <<k, new_lines, modified_lines>>
           ELSE /\ new_lines' = IF r.count = 0 THEN new_lines ELSE Append(new_lines, r.line)
                /\ modified_lines' = modified_lines + r.count
                /\ k' = k + 1
                /\ UNCHANGED <<exc, ret, pc>>
    /\ UNCHANGED <<fsVars, exit_status, docker_files, idx, files_found, files_modified,
                   total_lines_commented, results, file_path, lines>>

\* Mutant of ProcessLine: the lines rewritten so far are written to the file
\* when a line raises.
ProcessLineFlushing ==
    /\ pc = "pf_for"
    /\ k <= Len(lines)
    /\ LET r == RewriteLine(lines[k])
       IN  IF r.raised
           THEN /\ exc' = "IndexError"
                /\ ret' = -1
                /\ pc' = "pf_ret"
                /\ disk' = [disk EXCEPT ![file_path] = JoinLines(new_lines)]
                /\ mtime' = [mtime EXCEPT ![file_path] = @ + 1]
                /\ UNCHANGED <<k, new_lines, modified_lines>>
           ELSE /\ new_lines' = Append(new_lines, r.line)
                /\ modified_lines' = modified_lines + r.count
                /\ k' = k + 1
                /\ UNCHANGED <<exc, ret, pc, disk, mtime>>
    /\ UNCHANGED <<packages, access, start, run, exit_status, docker_files, idx,
                   files_found, files_modified, total_lines_commented, results,
                   file_path, lines>>

\* one iteration of the for loop; an IndexError ends the call with -1
ProcessLine ==
    /\ pc = "pf_for"
    /\ k <= Len(lines)
    /\ LET r == RewriteLine(lines[k])
       IN  IF r.raised
           THEN /\ exc' = "IndexError"
                /\ ret' = -1
                /\ pc' = "pf_ret"
                /\ UNCHANGED <<k, new_lines, modified_lines>>
           ELSE /\ new_lines' = Append(new_lines, r.line)
                /\ modified_lines' = modified_lines + r.count
                /\ k' = k + 1
                /\ UNCHANGED <<exc, ret, pc>>
    /\ UNCHANGED <<fsVars, exit_status, docker_files, idx, files_found, files_modified,
                   total_lines_commented, results, file_path, lines>>

\* Mutant of ReturnUnwritten: the file is written whatever modified_lines is.
ReturnRewritten ==
    /\ pc = "pf_for"
    /\ k > Len(lines)
    /\ ~(modified_lines > 0)
    /\ disk' = [disk EXCEPT ![file_path] = JoinLines(new_lines)]
    /\ mtime' = [mtime EXCEPT ![file_path] = @ + 1]
    /\ ret' = modified_lines
    /\ pc' = "pf_ret"
    /\ UNCHANGED <<packages, access, start, run, exit_status, docker_files, idx,
                   files_found, files_modified, total_lines_commented, results, frameVars>>

\* the loop is over and modified_lines > 0 is false: return modified_lines
ReturnUnwritten ==
    /\ pc = "pf_for"
    /\ k > Len(lines)
    /\ ~(modified_lines > 0)
    /\ ret' = modified_lines
    /\ pc' = "pf_ret"
    /\ UNCHANGED <<fsVars, exit_status, docker_files, idx, files_found, files_modified,
                   total_lines_commented, results, frameVars>>

\* modified_lines > 0: open(file_path, w), f.writelines(new_lines), return
WriteLines ==
    /\ pc = "pf_for"
    /\ k > Len(lines)
    /\ modified_lines > 0
    /\ disk' = [disk EXCEPT ![file_path] = JoinLines(new_lines)]
    /\ mtime' = [mtime EXCEPT ![file_path] = @ + 1]
    /\ ret' = modified_lines
    /\ pc' = "pf_ret"
    /\ UNCHANGED <<packages, access, start, run, exit_status, docker_files, idx,
                   files_found, files_modified, total_lines_commented, results, frameVars>>

\* the open for writing raises: nothing is written; caught, -1 returned
WriteOpenError ==
    /\ pc = "pf_for"
    /\ k > Len(lines)
    /\ modified_lines > 0
    /\ exc' = "write"
    /\ ret' = -1
    /\ pc' = "pf_ret"
    /\ UNCHANGED <<fsVars, exit_status, docker_files, idx, files_found, files_modified,
                   total_lines_commented, results, file_path, lines, k, new_lines,
                   modified_lines>>

\* the write raises after the open truncated the file: some of the new lines
\* are in it; caught, -1 returned
WriteError ==
    /\ pc = "pf_for"
    /\ k > Len(lines)
    /\ modified_lines > 0
    /\ \E n \in 0..Len(new_lines) :
           disk' = [disk EXCEPT ![file_path] = JoinLines(SubSeq(new_lines, 1, n))]
    /\ mtime' = [mtime EXCEPT ![file_path] = @ + 1]
    /\ exc' = "write"
    /\ ret' = -1
    /\ pc' = "pf_ret"
    /\ UNCHANGED <<packages, access, start, run, exit_status, docker_files, idx,
                   files_found, files_modified, total_lines_commented, results,
                   file_path, lines, k, new_lines, modified_lines>>

-----------------------------------------------------------------------------
(* The user runs the script again over what the last run left.             *)

Rerun ==
    /\ pc = "done"
    /\ run < MaxRuns
    /\ run' = run + 1
    /\ start' = [disk |-> disk, mtime |-> mtime]
    /\ pc' = "main"
    /\ docker_files' = <<>>
    /\ idx' = 0
    /\ files_found' = 0
    /\ files_modified' = 0
    /\ total_lines_commented' = 0
    /\ ret' = 0
    /\ results' = <<>>
    /\ UNCHANGED <<packages, disk, access, mtime, exit_status, frameVars>>

-----------------------------------------------------------------------------
(* The inputs: lines and files of the kind the script is run on.           *)

\* n blanks
Spaces(n) == [i \in 1..n |-> " "]

\* a list item of a labels section, indented by n blanks, with its newline
Item(n, label) == Spaces(n) \o <<"-", " ">> \o label \o <<"\n">>

\* the sequences over S of length 0 .. n
RECURSIVE SeqsUpTo(_, _)
SeqsUpTo(S, n) ==
    IF n = 0 THEN {<<>>}
    ELSE LET shorter == SeqsUpTo(S, n - 1)
         IN  shorter \cup {Append(s, x) : s \in {t \in shorter : Len(t) = n - 1}, x \in S}

\* The labels the eight conditions look for, as they stand in a compose file.
OldLabels ==
    {<<"traefik">> \o RuleHost, TraefikEnable, SablierEnable, SablierGroup, ServerPort,
     LostackDuration, LostackEnableSablier, LostackPort}

\* The labels the script writes, and a line of another kind.
NewLabels ==
    {LostackEnable, LostackGroup, LostackDefaultDuration, LostackAutostart, <<"image">>}

\* What follows a label on its line: nothing, a value (bare, quoted, with a
\* second equals sign, with blanks around it), or a second label.
Rests ==
    {<<>>,
     <<"=", "8080">>,
     <<"=", "\"", "8080", "\"">>,
     <<"=", "8080", "=", "x">>,
     <<"=", " ", "8080", " ">>,
     <<"=", "\"", " ", "8080", "\"">>}
    \cup {<<" ">> \o label : label \in OldLabels}

\* The lines of the one-line files: indentation, a list marker or a comment
\* marker or neither, a label, the rest, and a newline or the end of the file.
RichLines ==
    {Spaces(n) \o mark \o label \o rest \o nl :
        n \in 0..MaxIndent,
        mark \in {<<>>, <<"-", " ">>, <<"#", " ">>},
        label \in OldLabels \cup NewLabels,
        rest \in Rests,
        nl \in {<<>>, <<"\n">>}}

\* The lines of the files of several lines.
FileLines ==
    {<<"image", "\n">>,
     Item(0, <<"traefik">> \o RuleHost),
     <<" ", "#", " ", "traefik">> \o RuleHost \o <<"\n">>,
     Item(1, TraefikEnable),
     Item(1, SablierEnable),
     Item(1, SablierGroup),
     Item(1, ServerPort \o <<"=", "8080">>),
     Item(1, ServerPort),
     Item(1, LostackDuration \o <<"=", "8080">>),
     Item(1, LostackEnableSablier \o <<"=", "true">>),
     Item(1, LostackPort \o <<"=", "\"", "8080", "\"">>),
     Item(1, LostackPort \o <<"=", "8080">>),
     <<"-", " ">> \o TraefikEnable}

\* The files of the runs over several files: an empty one, one no condition
\* matches, one with one and one with two matching lines, and one whose
\* second matching line holds no value.
SampleFiles ==
    {<<>>,
     JoinLines(<<<<"image", "\n">>, Item(1, <<"ports">>)>>),
     JoinLines(<<<<"image", "\n">>, Item(1, TraefikEnable)>>),
     JoinLines(<<Item(1, <<"traefik">> \o RuleHost), <<"image", "\n">>,
                 Item(1, ServerPort \o <<"=", "8080">>)>>),
     JoinLines(<<Item(1, SablierGroup), Item(1, ServerPort)>>)}

-----------------------------------------------------------------------------
(* The specifications.                                                     *)

\* A run of the script in any working directory: packages may be missing or a
\* file; when it is a directory it holds 0 .. MaxFiles compose files, each
\* readable and writable or not.
Init ==
    /\ packages \in {"missing", "file", "dir"}
    /\ \E n \in 0..(IF packages = "dir" THEN MaxFiles ELSE 0) :
           /\ disk \in [1..n -> SampleFiles]
           /\ access \in [1..n -> BOOLEAN]
           /\ mtime = [p \in 1..n |-> 0]
    /\ run = 1
    /\ Started

Next ==
    \/ FindMissing
    \/ FindNotDir
    \/ FindFiles
    \/ NoFiles
    \/ InitCounters
    \/ AccessDenied
    \/ CallProcessFile
    \/ HandleResult
    \/ Summary
    \/ ReadLines
    \/ ReadError
    \/ ProcessLine
    \/ ReturnUnwritten
    \/ WriteLines
    \/ WriteOpenError
    \/ WriteError

Spec == Init /\ [][Next]_vars

\* A run over one accessible file of 0 .. MaxLines lines.
InitFile ==
    /\ packages = "dir"
    /\ \E ls \in SeqsUpTo(FileLines, MaxLines) : disk = <<JoinLines(ls)>>
    /\ access = <<TRUE>>
    /\ mtime = <<0>>
    /\ run = 1
    /\ Started

NextFile ==
    \/ FindFiles
    \/ InitCounters
    \/ CallProcessFile
    \/ HandleResult
    \/ Summary
    \/ ReadLines
    \/ ReadError
    \/ ProcessLine
    \/ ReturnUnwritten
    \/ WriteLines
    \/ WriteOpenError
    \/ WriteError

FileSpec == InitFile /\ [][NextFile]_vars

\* Runs, one after the other and without input/output errors, over one
\* accessible file of one line.
InitLine ==
    /\ packages = "dir"
    /\ \E l \in RichLines : disk = <<l>>
    /\ access = <<TRUE>>
    /\ mtime = <<0>>
    /\ run = 1
    /\ Started

NextLine ==
    \/ FindFiles
    \/ InitCounters
    \/ CallProcessFile
    \/ HandleResult
    \/ Summary
    \/ ReadLines
    \/ ProcessLine
    \/ ReturnUnwritten
    \/ WriteLines
    \/ Rerun

LineSpec == InitLine /\ [][NextLine]_vars

\* The run over several files, with the fairness of a process that is not
\* killed: it takes its next step as long as it has one.
FairSpec == Init /\ [][Next]_vars /\ WF_vars(Next)

-----------------------------------------------------------------------------
(* The properties.                                                         *)

\* process_file is at its return, with the frame still in place.
AtReturn == pc = "pf_ret"

\* process_file is at its return and did not fail.
Returned == AtReturn /\ ret >= 0

\* The conditions of the chain that hold of a line, and the least of a set.
Applicable(line) == {j \in 1..8 : Cond(j, line)}
Least(S) == CHOOSE j \in S : \A i \in S : j <= i

\* The text after the first equals sign of a line that holds one.
AfterFirstEq(line) == From(line, Find(line, <<"=">>))

\* A text up to its first equals sign, all of it when it holds none.
UpToEq(s) == IF Contains(s, <<"=">>) THEN SubSeq(s, 1, Find(s, <<"=">>) - 1) ELSE s

RECURSIVE SumRet(_)
\* The sum of the counts of the files that were processed with a count > 0.
SumRet(rs) ==
    IF rs = <<>> THEN 0
    ELSE (IF Head(rs).called /\ Head(rs).ret > 0 THEN Head(rs).ret ELSE 0) + SumRet(Tail(rs))

\* C1: idempotence.  A run over what an earlier run left rewrites nothing:
\* when process_file returns without failing in a later run, the lines it
\* produced are the lines it read.
C1_Idempotent == (run > 1 /\ Returned) => new_lines = lines

\* C2: line count and order.  While the loop runs and when it has ended, the
\* output holds one line per input line passed, the i-th made from the i-th
\* input line alone; at a return without failure both lists have the same
\* length, and a file that was written reads back as that list of lines.
C2_LineCountAndOrder ==
    /\ (pc = "pf_for" \/ Returned) =>
          /\ Len(new_lines) = k - 1
          /\ \A i \in 1..Len(new_lines) : new_lines[i] = RewriteLine(lines[i]).line
    /\ Returned => Len(new_lines) = Len(lines)
    /\ (Returned /\ ret > 0) => SplitLines(disk[file_path]) = new_lines

\* C2 witness: a file of two lines or more was rewritten, one line kept and
\* one changed.
C2_Witness ==
    /\ Returned
    /\ Len(lines) >= 2
    /\ \E i, j \in 1..Len(lines) : new_lines[i] = lines[i] /\ new_lines[j] # lines[j]

\* C3: priority.  A line of which several conditions hold, once passed by
\* the loop, has become what the body of the least of them makes of the
\* original line; and every line passed of which a condition holds has added
\* exactly 1 to modified_lines.
C3_PriorityExclusive ==
    (pc = "pf_for" \/ Returned) =>
        /\ \A i \in 1..(k - 1) :
              Cardinality(Applicable(lines[i])) > 1 =>
                  new_lines[i] = Body(Least(Applicable(lines[i])), lines[i]).line
        /\ modified_lines = Cardinality({i \in 1..(k - 1) : Applicable(lines[i]) # {}})

\* C3 witness: a line that is not a comment and holds both the Host rule and
\* traefik.enable=true was commented out, the flag left as it was.
C3_Witness ==
    /\ Returned
    /\ Len(lines) = 1
    /\ Cond(1, lines[1]) /\ Cond(2, lines[1])
    /\ new_lines[1] = CommentOut(lines[1]).line
    /\ Contains(new_lines[1], TraefikEnable)
    /\ ret = 1

\* C4: no write without a change.  The file is opened for writing only when
\* modified_lines > 0; a call that returns a count > 0 has overwritten the
\* file with the new lines; a call that returns 0 has left content and
\* modification time as they were.
C4_NoOpWriteSuppression ==
    /\ \A p \in Paths :
          mtime[p] # start.mtime[p] =>
              \/ p = file_path /\ modified_lines > 0
              \/ \E i \in 1..Len(results) : results[i].path = p /\ results[i].ret # 0
    /\ (Returned /\ ret > 0) =>
          /\ disk[file_path] = JoinLines(new_lines)
          /\ mtime[file_path] = start.mtime[file_path] + 1
    /\ (Returned /\ ret = 0) =>
          /\ disk[file_path] = start.disk[file_path]
          /\ mtime[file_path] = start.mtime[file_path]

\* C4 witness: a file with lines, none of which matched, was processed.
C4_Witness == Returned /\ ret = 0 /\ Len(lines) >= 1 /\ disk = start.disk

\* C5: the count returned is the number of positions at which the output
\* line differs from the input line.
C5_CountIsChangedLines ==
    Returned => ret = Cardinality({i \in 1..Len(lines) : new_lines[i] # lines[i]})

\* C6: failure isolation.  At the summary every discovered file has been
\* passed by the loop in order, every accessible one was handed to
\* process_file, whatever became of the files before it, and the exit status
\* is 0.
C6_IsolationAtSummary ==
    (pc = "done" /\ docker_files # <<>>) =>
        /\ exit_status = 0
        /\ Len(results) = Len(docker_files)
        /\ \A i \in 1..Len(docker_files) :
              /\ results[i].path = docker_files[i]
              /\ results[i].called = access[docker_files[i]]

\* C6: the above in every state of every run, no error status once a file
\* has been passed, and a failed call is followed by the summary, status 0.
C6_FailureIsolation ==
    /\ [](C6_IsolationAtSummary /\ (exit_status # 0 => results = <<>>))
    /\ (AtReturn /\ ret = -1) ~> (pc = "done" /\ exit_status = 0)

\* C6 witness: the run is over, a file failed and a later file was rewritten.
C6_Witness ==
    /\ pc = "done"
    /\ \E i, j \in 1..Len(results) : i < j /\ results[i].ret = -1 /\ results[j].ret > 0

\* C7: the fatal setup error.  The status is not 0 exactly in the runs whose
\* packages is missing or no directory; such a run ends before the glob, with
\* no file listed, read or written; every run that ends otherwise ends with
\* status 0.
C7_FatalOnlyWithoutPackages ==
    /\ exit_status # 0 <=> (pc = "exit")
    /\ pc = "exit" => packages # "dir"
    /\ packages # "dir" =>
          /\ pc \in {"main", "exit"}
          /\ docker_files = <<>> /\ results = <<>> /\ NoFrame
          /\ disk = start.disk /\ mtime = start.mtime
    /\ pc = "done" => packages = "dir" /\ exit_status = 0

\* C7 witness: packages is a file and the process has exited with status 1.
C7_Witness == pc = "exit" /\ packages = "file" /\ exit_status = 1

\* C8: the counters at the summary.  files_found is the number of files
\* discovered, files_modified the number of files processed with a count > 0,
\* total_lines_commented the sum of those counts.
C8_SummaryCounters ==
    (pc = "done" /\ docker_files # <<>>) =>
        /\ files_found = Cardinality(Paths)
        /\ files_found = Len(results)
        /\ files_modified =
              Cardinality({i \in 1..Len(results) : results[i].called /\ results[i].ret > 0})
        /\ total_lines_commented = SumRet(results)

\* C8 witness: at the summary, one file was skipped or failed or unchanged,
\* and another one was modified.
C8_Witness ==
    /\ pc = "done"
    /\ files_found = 2
    /\ files_modified = 1
    /\ \E i \in 1..Len(results) : results[i].ret <= 0

\* C9, as claimed: the value the server.port branch writes is all the text
\* after the first equals sign of the line, stripped.
C9_ValueIsAllAfterFirstEq ==
    (Returned /\ Len(lines) = 1 /\ Branch(lines[1]) = 5) =>
        new_lines[1] = Indent(lines[1]) \o PortLabel
                          \o Strip(AfterFirstEq(lines[1])) \o <<"\n">>

\* C9, amended: the value is the text between the first equals sign and the
\* next one (the end of the line when there is none), stripped.
C9_ValueIsSecondField ==
    (Returned /\ Len(lines) = 1 /\ Branch(lines[1]) = 5) =>
        /\ new_lines[1] = Indent(lines[1]) \o PortLabel
                             \o Strip(UpToEq(AfterFirstEq(lines[1]))) \o <<"\n">>
        /\ ret = 1

\* C9 witness: a server.port line with two equals signs was rewritten.
C9_Witness ==
    /\ Returned
    /\ Len(lines) = 1
    /\ Branch(lines[1]) = 5
    /\ Cardinality(Occurrences(lines[1], <<"=">>)) >= 2

\* C10: all or nothing.  No file is written while the loop over its lines
\* runs; when a line raises, process_file returns -1 and the file is left as
\* it was, whatever the lines before it matched.
C10_AllOrNothing ==
    /\ (pc = "pf_for" /\ k <= Len(lines)) =>
          /\ disk[file_path] = start.disk[file_path]
          /\ mtime[file_path] = start.mtime[file_path]
    /\ exc = "IndexError" =>
          /\ AtReturn /\ ret = -1
          /\ disk[file_path] = start.disk[file_path]
          /\ mtime[file_path] = start.mtime[file_path]

\* C10 witness: a line raised after an earlier line of the file had matched.
C10_Witness == AtReturn /\ exc = "IndexError" /\ modified_lines > 0

=============================================================================
